---- MODULE Spec2Model ----
(***************************************************************************)
(* A model of src/script.js, the interactive layer of the portfolio page.  *)
(*                                                                         *)
(* The script is single threaded: every listener and every timer callback  *)
(* runs to completion, so each is one action.  Timers are kept with the    *)
(* time that remains until they are due; a due timer fires before time     *)
(* advances any further, and due timers fire in any order.                 *)
(*                                                                         *)
(* Strings are sequences of one-character strings.                         *)
(***************************************************************************)
EXTENDS Integers, Sequences, FiniteSets, TLC

VARIABLES
    fields,          \* value of #fullName, #email, #subject, #message
    submitDisabled,  \* submitBtn.disabled
    submitText,      \* submitBtn.textContent
    msgText,         \* formMessage.textContent
    msgClass,        \* formMessage.className
    timers,          \* pending setTimeout callbacks of the form, in registration order
    storedTheme,     \* localStorage.getItem('theme')
    bodyClasses,     \* the theme classes of body.classList
    iconClasses,     \* the theme classes of themeIcon.classList
    bodyMarkup,      \* the theme classes of <body> in the page's markup
    iconMarkup,      \* the theme classes of #themeIcon in the page's markup
    scrollY,         \* window.scrollY, also window.pageYOffset
    headerScrolled,  \* header.classList.contains('scrolled')
    backToTopVisible, \* backToTop.classList.contains('visible')
    lastScrollTop,   \* the module's lastScrollTop
    navbarActive,    \* navbar.classList.contains('active')
    menuIconX,       \* menuIcon.classList.contains('bx-x')
    innerWidth,      \* window.innerWidth
    timeout,         \* the variable timeout of handleResize's debounce closure
    resizeTimers,    \* pending setTimeout callbacks of handleResize
    limit,           \* the limit a throttle closure was made with
    inThrottle,      \* the variable inThrottle of that closure
    throttleTimers,  \* pending setTimeout callbacks of that closure
    fnArg,           \* the argument of the latest invocation of the throttled func
    navLinkSections, \* the data-section attribute of each nav link, in document order
    activeLinks,     \* the nav links with class 'active'
    observed,        \* the elements animationObserver observes
    style,           \* the inline opacity and transform of each animated element
    animTimers,      \* pending setTimeout callbacks of animationObserver, in registration order
    themeTrail,      \* history: the theme before each of the last two toggles in a row
    prevScrollY,     \* history: the scroll offset before the latest scroll event
    menuWasOpen,     \* history: navbarActive before the latest step
    burstCalls,      \* history: calls of handleResize since its timer last fired
    burstRuns,       \* history: runs of the resize callback since the burst began
    sinceCall,       \* history: time since the latest call of handleResize
    windowCalls,     \* history: calls of the throttled function in this window
    windowRuns,      \* history: invocations of func in this window
    windowArg,       \* history: the argument of the call that opened this window
    elapsed,         \* history: time since the call that opened this window
    windows,         \* history: the windows opened so far, counted up to two
    batch,           \* history: the entries of the latest sectionObserver callback
    activeBefore,    \* history: activeLinks before the latest sectionObserver callback
    sightings,       \* history: animationObserver callbacks that saw an element intersecting
    seenBatch,       \* history: which of them first saw each element intersecting, or 0
    seenIndex,       \* history: the position in that batch of the element's first intersecting entry
    scheduled,       \* history: how many reveals have been scheduled for each element
    last             \* history: the kind of the step that led to this state

formVars == <<fields, submitDisabled, submitText, msgText, msgClass, timers>>

themeVars == <<storedTheme, bodyClasses, iconClasses, bodyMarkup, iconMarkup, themeTrail>>

scrollVars == <<scrollY, headerScrolled, backToTopVisible, lastScrollTop, prevScrollY>>

menuVars == <<navbarActive, menuIconX, innerWidth, timeout, resizeTimers,
              menuWasOpen, burstCalls, burstRuns, sinceCall>>

throttleVars == <<limit, inThrottle, throttleTimers, fnArg,
                  windowCalls, windowRuns, windowArg, elapsed, windows>>

navVars == <<navLinkSections, activeLinks, batch, activeBefore>>

animVars == <<observed, style, animTimers, sightings, seenBatch, seenIndex, scheduled>>

vars == <<formVars, themeVars, scrollVars, menuVars, throttleVars, navVars, animVars, last>>

\* what the form's, the theme's and scroll's, the menu's, the throttle's, the
\* navigation's and the entrance animation's steps leave alone
notForm == <<themeVars, scrollVars, menuVars, throttleVars, navVars, animVars>>
notTheme == <<formVars, menuVars, throttleVars, navVars, animVars>>
notMenu == <<formVars, themeVars, scrollVars, throttleVars, navVars, animVars>>
notThrottle == <<formVars, themeVars, scrollVars, menuVars, navVars, animVars>>
notNav == <<formVars, themeVars, scrollVars, menuVars, throttleVars, animVars>>
notAnim == <<formVars, themeVars, scrollVars, menuVars, throttleVars, navVars>>

----------------------------------------------------------------------------
(* Bounds of the model *)

\* at most this many form timers are pending at once
MaxTimers == 2
\* longest string drawn for the email field when the validation is checked alone
MaxEmailLen == 6
\* the lowest position of the page a scroll event reports
MaxScroll == 1000
\* at most this many calls are followed within one burst of a debounced
\* function, and within one window of a throttled one
MaxCalls == 3
\* the step of the clock while a resize timer is pending, in ms
ResizeTimeStep == 50
\* the longest limit given to throttle, in steps of its clock
MaxLimit == 4
\* the most entries an intersection observer delivers to one callback
MaxBatch == 2
\* at most this many reveal timers are pending at once
MaxPending == 3

----------------------------------------------------------------------------
(* Strings *)

\* the characters strings are built from: a word character, the two
\* characters the email pattern names, and white space
Chars == {"a", "@", ".", " "}

IsSpace(c) == c = " "

RECURSIVE TrimStart(_)
TrimStart(s) ==
    IF s # <<>> /\ IsSpace(Head(s)) THEN TrimStart(Tail(s)) ELSE s

RECURSIVE TrimEnd(_)
TrimEnd(s) ==
    IF s # <<>> /\ IsSpace(s[Len(s)]) THEN TrimEnd(SubSeq(s, 1, Len(s) - 1)) ELSE s

\* String.prototype.trim
Trim(s) == TrimEnd(TrimStart(s))

\* [^\s@]
NotSpaceNorAt(c) == ~IsSpace(c) /\ c # "@"

\* [^\s@]+ matched against the whole of s[from..to]
MatchesRun(s, from, to) ==
    /\ from <= to
    /\ \A k \in from..to : NotSpaceNorAt(s[k])

\* the pattern without its ".tld" part
EmailRegexTestNoDot(s) ==
    \E i \in 1..Len(s) :
        /\ s[i] = "@"
        /\ MatchesRun(s, 1, i - 1)
        /\ MatchesRun(s, i + 1, Len(s))

\* /^[^\s@]+@[^\s@]+\.[^\s@]+$/.test(s): some "@" at i and some "." at j split
\* s into three non-empty runs of [^\s@]
EmailRegexTest(s) ==
    \E i \in 1..Len(s) : \E j \in 1..Len(s) :
        /\ s[i] = "@"
        /\ s[j] = "."
        /\ MatchesRun(s, 1, i - 1)
        /\ MatchesRun(s, i + 1, j - 1)
        /\ MatchesRun(s, j + 1, Len(s))

----------------------------------------------------------------------------
(* Contact form *)

FieldNames == {"fullName", "email", "subject", "message"}

MsgFillAll == "Please fill in all fields."
MsgBadEmail == "Please enter a valid email address."
MsgSuccess == "Message sent successfully! I'll get back to you soon."

SUBMIT_DELAY == 2000
MESSAGE_DELAY == 5000

RECURSIVE GCD(_, _)
GCD(a, b) == IF b = 0 THEN a ELSE GCD(b, a % b)

\* the step of the form's clock: every delay of the form is a multiple of it
FormTick == GCD(SUBMIT_DELAY, MESSAGE_DELAY)

EmptyStr == <<>>
BlankStr == <<" ">>
WordStr == <<"a">>
GoodEmail == <<"a", "@", "a", ".", "a">>
PaddedEmail == <<" ", "a", "@", "a", ".", "a", " ">>
BadEmail == <<"a", "@", "a">>

\* what the user types into a text field, and into the email field
TextValues == {EmptyStr, BlankStr, WordStr}
EmailValues == {BlankStr, GoodEmail, PaddedEmail, BadEmail}

\* a faulty variant: the message field is not checked
AnyFieldEmptyNoMessage(f) ==
    \/ Trim(f.fullName) = EmptyStr
    \/ Trim(f.email) = EmptyStr
    \/ Trim(f.subject) = EmptyStr

\* !fullName || !email || !subject || !message, on the trimmed values
AnyFieldEmpty(f) ==
    \/ Trim(f.fullName) = EmptyStr
    \/ Trim(f.email) = EmptyStr
    \/ Trim(f.subject) = EmptyStr
    \/ Trim(f.message) = EmptyStr

\* a faulty variant: the email is not tested
EmailOkAlways(f) == TRUE

\* a faulty variant: the pattern tested lacks its ".tld" part
EmailOkNoDot(f) == EmailRegexTestNoDot(Trim(f.email))

\* emailRegex.test(email), email being the trimmed value of the field
EmailOk(f) == EmailRegexTest(Trim(f.email))

Timer(kind, delay) == [kind |-> kind, rem |-> delay]

RemoveAt(s, i) == SubSeq(s, 1, i - 1) \o SubSeq(s, i + 1, Len(s))

\* showFormMessage(message, type), with tms the timers pending when it is called
ShowFormMessage(message, type, tms) ==
    /\ msgText' = message
    /\ msgClass' = "form-message " \o type
    /\ timers' = Append(tms, Timer("clear", MESSAGE_DELAY))

\* the form's state when the script has run: the markup's empty form
FormInit ==
    /\ fields = [f \in FieldNames |-> EmptyStr]
    /\ submitDisabled = FALSE
    /\ submitText = "Send Message"
    /\ msgText = ""
    /\ msgClass = "form-message"
    /\ timers = <<>>

\* the user edits one field
TypeField(f, v) ==
    /\ fields[f] # v
    /\ fields' = [fields EXCEPT ![f] = v]
    /\ last' = "type"
    /\ UNCHANGED <<submitDisabled, submitText, msgText, msgClass, timers, notForm>>

\* handleFormSubmit(e), for one submit event
HandleFormSubmit ==
    /\ Len(timers) < MaxTimers
    /\ last' = "submit"
    /\ UNCHANGED notForm
    /\ IF AnyFieldEmpty(fields)
       THEN /\ ShowFormMessage(MsgFillAll, "error", timers)
            /\ UNCHANGED <<fields, submitDisabled, submitText>>
       ELSE IF ~EmailOk(fields)
       THEN /\ ShowFormMessage(MsgBadEmail, "error", timers)
            /\ UNCHANGED <<fields, submitDisabled, submitText>>
       ELSE /\ submitDisabled' = TRUE
            /\ submitText' = "Sending..."
            /\ timers' = Append(timers, Timer("submit", SUBMIT_DELAY))
            /\ UNCHANGED <<fields, msgText, msgClass>>

\* the callback of the simulated submission, timer i being due
SubmitTimerFires(i) ==
    /\ timers[i].kind = "submit"
    /\ timers[i].rem = 0
    /\ fields' = [f \in FieldNames |-> EmptyStr]
    /\ ShowFormMessage(MsgSuccess, "success", RemoveAt(timers, i))
    /\ submitDisabled' = FALSE
    /\ submitText' = "Send Message"
    /\ last' = "submitTimer"
    /\ UNCHANGED notForm

\* the callback that hides the message, timer i being due
ClearTimerFires(i) ==
    /\ timers[i].kind = "clear"
    /\ timers[i].rem = 0
    /\ msgClass' = "form-message"
    /\ timers' = RemoveAt(timers, i)
    /\ last' = "clearTimer"
    /\ UNCHANGED <<fields, submitDisabled, submitText, msgText, notForm>>

\* time passes, up to the next moment a timer is due
FormTimePasses ==
    /\ timers # <<>>
    /\ \A i \in 1..Len(timers) : timers[i].rem >= FormTick
    /\ timers' = [i \in 1..Len(timers) |->
                     [timers[i] EXCEPT !.rem = timers[i].rem - FormTick]]
    /\ last' = "time"
    /\ UNCHANGED <<fields, submitDisabled, submitText, msgText, msgClass, notForm>>

FormNext ==
    \/ \E f \in FieldNames \ {"email"} : \E v \in TextValues : TypeField(f, v)
    \/ \E v \in EmailValues : TypeField("email", v)
    \/ HandleFormSubmit
    \/ \E i \in 1..Len(timers) : SubmitTimerFires(i)
    \/ \E i \in 1..Len(timers) : ClearTimerFires(i)
    \/ FormTimePasses

----------------------------------------------------------------------------
(* Theme toggle *)

\* localStorage.getItem('theme') when the key is not stored
NoTheme == "null"

\* The theme classes <body> and #themeIcon carry in the page's markup.  The
\* markup is not part of the script: the two presentation classes are mutually
\* exclusive and the page defaults to dark, so the markup carries the dark
\* classes or none.
BodyMarkups == {{}, {"dark-mode"}}
IconMarkups == {{}, {"bx-moon"}}

\* const isDarkMode = body.classList.contains('dark-mode')
IsDarkMode(body) == "dark-mode" \in body

\* body.classList after toggleTheme
ToggledBody(body) ==
    IF IsDarkMode(body)
    THEN (body \ {"dark-mode"}) \cup {"light-mode"}
    ELSE (body \ {"light-mode"}) \cup {"dark-mode"}

\* a faulty variant: the icon keeps the class it had
ToggledIconKeepsOld(body, icon) ==
    IF IsDarkMode(body) THEN icon \cup {"bx-sun"} ELSE icon \cup {"bx-moon"}

\* themeIcon.classList after toggleTheme
ToggledIcon(body, icon) ==
    IF IsDarkMode(body)
    THEN (icon \ {"bx-moon"}) \cup {"bx-sun"}
    ELSE (icon \ {"bx-sun"}) \cup {"bx-moon"}

\* a faulty variant: the two branches store each other's value
ToggledStoreSwapped(body) == IF IsDarkMode(body) THEN "dark" ELSE "light"

\* the value toggleTheme stores under 'theme'
ToggledStore(body) == IF IsDarkMode(body) THEN "light" ELSE "dark"

\* a faulty variant: the saved theme is not applied
LoadedBodyAlwaysDark(body, savedTheme) == body \cup {"dark-mode"}

\* body.classList after loadTheme
LoadedBody(body, savedTheme) ==
    IF savedTheme = "light"
    THEN (body \ {"dark-mode"}) \cup {"light-mode"}
    ELSE body \cup {"dark-mode"}

\* themeIcon.classList after loadTheme
LoadedIcon(icon, savedTheme) ==
    IF savedTheme = "light"
    THEN (icon \ {"bx-moon"}) \cup {"bx-sun"}
    ELSE icon \cup {"bx-moon"}

ThemeNow == [store |-> storedTheme, body |-> bodyClasses, icon |-> iconClasses]

LastTwo(s) == IF Len(s) > 2 THEN SubSeq(s, Len(s) - 1, Len(s)) ELSE s

\* the first page view: nothing is stored and the script has run loadTheme()
ThemeInit(b, i) ==
    /\ bodyMarkup = b
    /\ iconMarkup = i
    /\ storedTheme = NoTheme
    /\ bodyClasses = LoadedBody(bodyMarkup, storedTheme)
    /\ iconClasses = LoadedIcon(iconMarkup, storedTheme)
    /\ themeTrail = <<>>

\* toggleTheme(), the click listener of themeToggle
ToggleTheme ==
    /\ bodyClasses' = ToggledBody(bodyClasses)
    /\ iconClasses' = ToggledIcon(bodyClasses, iconClasses)
    /\ storedTheme' = ToggledStore(bodyClasses)
    /\ themeTrail' = LastTwo(Append(themeTrail, ThemeNow))
    /\ last' = "toggle"
    /\ UNCHANGED <<bodyMarkup, iconMarkup, scrollVars, notTheme>>

----------------------------------------------------------------------------
(* Header and back-to-top scroll listeners *)

HEADER_THRESHOLD == 100
BACK_TO_TOP_THRESHOLD == 500

\* the offsets scroll events report: the top, around both thresholds, the bottom
ScrollPositions ==
    {0, HEADER_THRESHOLD - 1, HEADER_THRESHOLD, HEADER_THRESHOLD + 1,
     BACK_TO_TOP_THRESHOLD - 1, BACK_TO_TOP_THRESHOLD, BACK_TO_TOP_THRESHOLD + 1,
     MaxScroll}

\* window.pageYOffset || document.documentElement.scrollTop
PageScrollTop(pageYOffset, docScrollTop) ==
    IF pageYOffset # 0 THEN pageYOffset ELSE docScrollTop

\* a faulty variant: the threshold itself counts as scrolled
HeaderIsScrolledFrom(scrollTop) == scrollTop >= HEADER_THRESHOLD

\* scrollTop > 100
HeaderIsScrolled(scrollTop) == scrollTop > HEADER_THRESHOLD

\* window.scrollY > 500
BackToTopIsVisible(y) == y > BACK_TO_TOP_THRESHOLD

ScrollInit ==
    /\ scrollY = 0
    /\ headerScrolled = FALSE
    /\ backToTopVisible = FALSE
    /\ lastScrollTop = 0
    /\ prevScrollY = 0

\* one scroll event at offset y: both scroll listeners run, in registration order
ScrollEvent(y) ==
    /\ y # scrollY
    /\ scrollY' = y
    /\ prevScrollY' = scrollY
    /\ LET scrollTop == PageScrollTop(y, y)
       IN /\ headerScrolled' = HeaderIsScrolled(scrollTop)
          /\ lastScrollTop' = scrollTop
    /\ backToTopVisible' = BackToTopIsVisible(y)
    /\ last' = "scroll"
    /\ UNCHANGED <<themeVars, notTheme>>

\* the page is loaded again: the DOM is the markup's again, the script runs
\* from its first line (loadTheme() included), localStorage is kept
Reload ==
    /\ bodyClasses' = LoadedBody(bodyMarkup, storedTheme)
    /\ iconClasses' = LoadedIcon(iconMarkup, storedTheme)
    /\ themeTrail' = <<>>
    /\ scrollY' = 0
    /\ headerScrolled' = FALSE
    /\ backToTopVisible' = FALSE
    /\ lastScrollTop' = 0
    /\ prevScrollY' = 0
    /\ last' = "reload"
    /\ UNCHANGED <<storedTheme, bodyMarkup, iconMarkup, notTheme>>

ThemeNext ==
    \/ ToggleTheme
    \/ \E y \in ScrollPositions : ScrollEvent(y)
    \/ Reload

----------------------------------------------------------------------------
(* Mobile menu *)

MOBILE_BREAKPOINT == 768

\* window.innerWidth at and above the breakpoint
WidthValues == {MOBILE_BREAKPOINT, MOBILE_BREAKPOINT + 1}

Keys == {"Escape", "Enter"}

Menu == [navbar |-> navbarActive, icon |-> menuIconX]

\* navbar.classList.toggle('active'); menuIcon.classList.toggle('bx-x')
ToggleMenu(m) == [navbar |-> ~m.navbar, icon |-> ~m.icon]

\* a faulty variant: the icon keeps its class
CloseMenuKeepsIcon(m) == [navbar |-> FALSE, icon |-> m.icon]

\* navbar.classList.remove('active'); menuIcon.classList.remove('bx-x')
CloseMenu(m) == [navbar |-> FALSE, icon |-> FALSE]

\* a faulty variant: a target inside the menu icon counts as outside
DocumentClickIgnoresIcon(m, inNavbar, inIcon) ==
    IF ~inNavbar THEN CloseMenu(m) ELSE m

\* the document's click listener, for a target inside the navbar or the icon or not
DocumentClick(m, inNavbar, inIcon) ==
    IF ~inNavbar /\ ~inIcon THEN CloseMenu(m) ELSE m

\* the document's keydown listener
Keydown(m, key) ==
    IF key = "Escape" /\ m.navbar THEN CloseMenu(m) ELSE m

\* the function handleResize debounces
ResizeCallback(m, width) ==
    IF width > MOBILE_BREAKPOINT THEN CloseMenu(m) ELSE m

SetMenu(m) ==
    /\ navbarActive' = m.navbar
    /\ menuIconX' = m.icon
    /\ menuWasOpen' = navbarActive

----------------------------------------------------------------------------
(* debounce, as handleResize = debounce(..., 250) *)

RESIZE_WAIT == 250

\* let timeout; before the first call
NoTimeout == 0

TimerIds == 1..(MaxCalls + 1)

IdsOf(tms) == {t.id : t \in tms}

\* clearTimeout(id): no effect when no pending timer has that id
ClearTimeout(id, tms) == {t \in tms : t.id # id}

\* the ids setTimeout may still return: never one that is pending or held
FreeIds(tms, held) == TimerIds \ (IdsOf(tms) \cup {held})

\* a faulty variant: the pending timer is not cancelled
DebouncedTimersKeepsOld(tms, held, id, wait) ==
    tms \cup {[id |-> id, rem |-> wait]}

\* clearTimeout(timeout); timeout = setTimeout(later, wait), id being the new
\* timer's: the timers pending afterwards
DebouncedTimers(tms, held, id, wait) ==
    ClearTimeout(held, tms) \cup {[id |-> id, rem |-> wait]}

Min(a, b) == IF a < b THEN a ELSE b

\* the script has run: the menu as in the markup, where the navbar and the
\* icon agree; no resize yet
MenuInit(open, width) ==
    /\ navbarActive = open
    /\ menuIconX = open
    /\ innerWidth = width
    /\ timeout = NoTimeout
    /\ resizeTimers = {}
    /\ menuWasOpen = open
    /\ burstCalls = 0
    /\ burstRuns = 0
    /\ sinceCall = 0

resizeVars == <<innerWidth, timeout, resizeTimers, burstCalls, burstRuns, sinceCall>>

\* a click on the menu icon: its listener, then the document's
ClickMenuIcon(inNavbar) ==
    /\ SetMenu(DocumentClick(ToggleMenu(Menu), inNavbar, TRUE))
    /\ last' = "clickIcon"
    /\ UNCHANGED <<resizeVars, notMenu>>

\* a click on a nav link: its two listeners (the second only asks for a
\* smooth scroll), then the document's
ClickNavLink(inNavbar) ==
    /\ SetMenu(DocumentClick(CloseMenu(Menu), inNavbar, FALSE))
    /\ last' = "clickLink"
    /\ UNCHANGED <<resizeVars, notMenu>>

\* a click on anything else, inside the navbar or outside: the document's listener
ClickElsewhere(inNavbar) ==
    /\ SetMenu(DocumentClick(Menu, inNavbar, FALSE))
    /\ last' = IF inNavbar THEN "clickNavbar" ELSE "clickOutside"
    /\ UNCHANGED <<resizeVars, notMenu>>

\* a keydown event
KeydownEvent(key) ==
    /\ SetMenu(Keydown(Menu, key))
    /\ last' = IF key = "Escape" THEN "escape" ELSE "key"
    /\ UNCHANGED <<resizeVars, notMenu>>

\* a resize event to width w: handleResize(), the function debounce returned
ResizeEvent(w) ==
    /\ resizeTimers = {} \/ burstCalls < MaxCalls
    /\ FreeIds(resizeTimers, timeout) # {}
    /\ innerWidth' = w
    /\ LET id == CHOOSE i \in FreeIds(resizeTimers, timeout) :
                     \A j \in FreeIds(resizeTimers, timeout) : i <= j
       IN /\ resizeTimers' = DebouncedTimers(resizeTimers, timeout, id, RESIZE_WAIT)
          /\ timeout' = id
    /\ burstCalls' = IF resizeTimers = {} THEN 1 ELSE burstCalls + 1
    /\ burstRuns' = IF resizeTimers = {} THEN 0 ELSE burstRuns
    /\ sinceCall' = 0
    /\ last' = "resize"
    /\ UNCHANGED <<navbarActive, menuIconX, menuWasOpen, notMenu>>

\* later(), the callback of the due timer t: clearTimeout(timeout); func(...args)
ResizeTimerFires(t) ==
    /\ t.rem = 0
    /\ resizeTimers' = ClearTimeout(timeout, resizeTimers \ {t})
    /\ SetMenu(ResizeCallback(Menu, innerWidth))
    /\ burstRuns' = burstRuns + 1
    /\ last' = "resizeTimer"
    /\ UNCHANGED <<innerWidth, timeout, burstCalls, sinceCall, notMenu>>

\* time passes, up to the next moment a resize timer is due
MenuTimePasses ==
    /\ resizeTimers # {}
    /\ \A t \in resizeTimers : t.rem > 0
    /\ LET d == CHOOSE d \in 1..ResizeTimeStep :
                    /\ \A t \in resizeTimers : d <= t.rem
                    /\ d = ResizeTimeStep \/ \E t \in resizeTimers : d = t.rem
       IN /\ resizeTimers' = {[t EXCEPT !.rem = t.rem - d] : t \in resizeTimers}
          /\ sinceCall' = sinceCall + d
    /\ last' = "time"
    /\ UNCHANGED <<navbarActive, menuIconX, menuWasOpen, innerWidth, timeout,
                   burstCalls, burstRuns, notMenu>>

MenuNext ==
    \/ \E inNavbar \in BOOLEAN : ClickMenuIcon(inNavbar)
    \/ \E inNavbar \in BOOLEAN : ClickNavLink(inNavbar)
    \/ \E inNavbar \in BOOLEAN : ClickElsewhere(inNavbar)
    \/ \E key \in Keys : KeydownEvent(key)
    \/ \E w \in WidthValues : ResizeEvent(w)
    \/ \E t \in resizeTimers : ResizeTimerFires(t)
    \/ MenuTimePasses

----------------------------------------------------------------------------
(* throttle(func, limit): one function it returned *)

Args == {"x", "y"}

NoArg == "none"

\* throttle(func, l) has returned
ThrottleInit(l) ==
    /\ limit = l
    /\ inThrottle = FALSE
    /\ throttleTimers = {}
    /\ fnArg = NoArg
    /\ windowCalls = 0
    /\ windowRuns = 0
    /\ windowArg = NoArg
    /\ elapsed = 0
    /\ windows = 0

\* a faulty variant: the flag is never raised
ThrottleRaisesNothing(flag) == flag

\* inThrottle after func.apply(this, args): inThrottle = true
ThrottleRaises(flag) == TRUE

\* a faulty variant: the cooldown ends one step early
CooldownShort(l) == l - 1

\* the delay of setTimeout(() => inThrottle = false, limit)
Cooldown(l) == l

\* no window is open: no call yet, or the limit has passed since the call
\* that opened the last one and its timer has fired
WindowOver ==
    \/ windowCalls = 0
    \/ elapsed = limit /\ throttleTimers = {}

\* one call of the throttled function with argument a
ThrottledCall(a) ==
    /\ WindowOver \/ windowCalls < MaxCalls
    /\ IF ~inThrottle
       THEN /\ fnArg' = a
            /\ inThrottle' = ThrottleRaises(inThrottle)
            /\ throttleTimers' = throttleTimers \cup {Cooldown(limit)}
       ELSE UNCHANGED <<fnArg, inThrottle, throttleTimers>>
    /\ LET ran == IF ~inThrottle THEN 1 ELSE 0
       IN IF WindowOver
          THEN /\ windowCalls' = 1
               /\ windowRuns' = ran
               /\ windowArg' = a
               /\ elapsed' = 0
               /\ windows' = Min(windows + 1, 2)
          ELSE /\ windowCalls' = windowCalls + 1
               /\ windowRuns' = windowRuns + ran
               /\ UNCHANGED <<windowArg, elapsed, windows>>
    /\ last' = "call"
    /\ UNCHANGED <<limit, notThrottle>>

\* () => inThrottle = false, the callback of a due timer
ThrottleTimerFires ==
    /\ 0 \in throttleTimers
    /\ throttleTimers' = throttleTimers \ {0}
    /\ inThrottle' = FALSE
    /\ last' = "throttleTimer"
    /\ UNCHANGED <<limit, fnArg, windowCalls, windowRuns, windowArg, elapsed, windows,
                   notThrottle>>

\* time passes by one step of the throttle's clock
ThrottleTimePasses ==
    /\ throttleTimers # {}
    /\ 0 \notin throttleTimers
    /\ throttleTimers' = {r - 1 : r \in throttleTimers}
    /\ elapsed' = Min(elapsed + 1, limit)
    /\ last' = "time"
    /\ UNCHANGED <<limit, inThrottle, fnArg, windowCalls, windowRuns, windowArg,
                   windows, notThrottle>>

ThrottleNext ==
    \/ \E a \in Args : ThrottledCall(a)
    \/ ThrottleTimerFires
    \/ ThrottleTimePasses

----------------------------------------------------------------------------
(* Active navigation link: sectionObserver *)

\* the id attribute of each element of sections
SectionIds == {"home", "about", "contact"}

\* The data-section attributes of the nav links in the page's markup, in
\* document order.  The markup is not part of the script: one link for each
\* section, or a section without a link and a section with two.
NavMarkups == {<<"home", "about", "contact">>, <<"home", "about", "home">>}

\* an IntersectionObserverEntry of sectionObserver, as far as the callback reads it
SectionEntries == [target : SectionIds, isIntersecting : BOOLEAN]

\* the entries one callback may receive: never none
SectionBatches == UNION {[1..k -> SectionEntries] : k \in 1..MaxBatch}

\* document.querySelector(`.nav-link[data-section="${sectionId}"]`): the first
\* match in document order, as the set of that one link, or no link
QuerySelector(links, sectionId) ==
    LET hits == {i \in 1..Len(links) : links[i] = sectionId}
    IN IF hits = {}
       THEN {}
       ELSE {CHOOSE i \in hits : \A j \in hits : i <= j}

\* a faulty variant: no link loses its class
RemoveActiveFromNone(active, links) == active

\* navLinks.forEach(link => link.classList.remove('active'))
RemoveActive(active, links) == active \ (1..Len(links))

\* a faulty variant: an entry that is not intersecting clears the highlight
EntryEffectClearsOnLeave(active, links, entry) ==
    RemoveActive(active, links)
        \cup (IF entry.isIntersecting THEN QuerySelector(links, entry.target) ELSE {})

\* the body of entries.forEach for one entry: the links with 'active' afterwards
EntryEffect(active, links, entry) ==
    IF entry.isIntersecting
    THEN RemoveActive(active, links) \cup QuerySelector(links, entry.target)
    ELSE active

\* the callback of sectionObserver: the entries in order
RECURSIVE SectionCallback(_, _, _)
SectionCallback(active, links, entries) ==
    IF entries = <<>>
    THEN active
    ELSE SectionCallback(EntryEffect(active, links, Head(entries)), links, Tail(entries))

\* the script has run: the links as in the markup, no callback yet
NavInit(links, active) ==
    /\ navLinkSections = links
    /\ activeLinks = active
    /\ batch = <<>>
    /\ activeBefore = active

\* the browser delivers one batch of entries to sectionObserver
SectionObserverFires(entries) ==
    /\ activeLinks' = SectionCallback(activeLinks, navLinkSections, entries)
    /\ batch' = entries
    /\ activeBefore' = activeLinks
    /\ last' = "sections"
    /\ UNCHANGED <<navLinkSections, notNav>>

NavNext == \E entries \in SectionBatches : SectionObserverFires(entries)

----------------------------------------------------------------------------
(* Entrance animation: animateOnScroll *)

\* the elements of document.querySelectorAll('.skill-card, .project-card,
\* .about-container'): one of each
AnimatedElements == {"skill-card", "project-card", "about-container"}

STAGGER == 100

\* the step of the animation's clock: a batch may arrive between two reveals
AnimTick == STAGGER \div 2

\* element.style.opacity = '0'; element.style.transform = 'translateY(30px)'
Hidden == [opacity |-> "0", transform |-> "translateY(30px)"]

\* entry.target.style.opacity = '1'; entry.target.style.transform = 'translateY(0)'
Revealed == [opacity |-> "1", transform |-> "translateY(0)"]

\* an IntersectionObserverEntry of animationObserver, as far as the callback reads it
AnimEntries(targets) == [target : targets, isIntersecting : BOOLEAN]

\* The entries one callback may receive: never none, and only of elements that
\* are observed.  An element has one entry for each change the browser noticed
\* since the last callback, so it may have several.
AnimBatches(targets) == UNION {[1..k -> AnimEntries(targets)] : k \in 1..MaxBatch}

\* a faulty variant: the later entries are revealed first
RevealDelayReversed(index) == IF index = 0 THEN STAGGER ELSE 0

\* index * 100, the delay of the reveal of the entry at this position
RevealDelay(index) == index * STAGGER

\* a faulty variant: the element stays observed
UnobserveNothing(obs, target) == obs

\* animationObserver.unobserve(entry.target)
Unobserve(obs, target) == obs \ {target}

\* the body of entries.forEach for the entry at position index (from 0), st
\* being the observed elements and the pending timers before it
AnimEntryEffect(st, entry, index) ==
    IF entry.isIntersecting
    THEN [observed |-> Unobserve(st.observed, entry.target),
          timers |-> Append(st.timers,
                            [target |-> entry.target, rem |-> RevealDelay(index)])]
    ELSE st

\* the callback of animationObserver: the entries in order, from position index
RECURSIVE AnimationCallback(_, _, _)
AnimationCallback(st, entries, index) ==
    IF entries = <<>>
    THEN st
    ELSE AnimationCallback(AnimEntryEffect(st, Head(entries), index),
                           Tail(entries), index + 1)

\* animateOnScroll() has run: every element is hidden and observed
AnimInit ==
    /\ observed = AnimatedElements
    /\ style = [e \in AnimatedElements |-> Hidden]
    /\ animTimers = <<>>
    /\ sightings = 0
    /\ seenBatch = [e \in AnimatedElements |-> 0]
    /\ seenIndex = [e \in AnimatedElements |-> 0]
    /\ scheduled = [e \in AnimatedElements |-> 0]

\* the positions of the intersecting entries of element e in entries, from 0
HitsOf(entries, e) ==
    {k - 1 : k \in {j \in 1..Len(entries) :
                       entries[j].target = e /\ entries[j].isIntersecting}}

SetMin(S) == CHOOSE x \in S : \A y \in S : x <= y

\* the elements and the timers after the callback has run on these entries
AfterCallback(entries) ==
    AnimationCallback([observed |-> observed, timers |-> animTimers], entries, 0)

\* the elements these entries are the first to show intersecting
FirstSeen(entries) ==
    {e \in AnimatedElements : HitsOf(entries, e) # {} /\ seenBatch[e] = 0}

\* the browser delivers one batch of entries to animationObserver
AnimationObserverFires(entries) ==
    /\ Len(AfterCallback(entries).timers) <= MaxPending
    /\ observed' = AfterCallback(entries).observed
    /\ animTimers' = AfterCallback(entries).timers
    /\ sightings' = IF FirstSeen(entries) # {} THEN sightings + 1 ELSE sightings
    /\ seenBatch' = [e \in AnimatedElements |->
                        IF e \in FirstSeen(entries) THEN sightings + 1 ELSE seenBatch[e]]
    /\ seenIndex' = [e \in AnimatedElements |->
                        IF e \in FirstSeen(entries)
                        THEN SetMin(HitsOf(entries, e))
                        ELSE seenIndex[e]]
    /\ scheduled' = [e \in AnimatedElements |->
                        Min(scheduled[e] + Cardinality(HitsOf(entries, e)),
                            MaxBatch + 1)]
    /\ last' = "animate"
    /\ UNCHANGED <<style, notAnim>>

\* The callback of a due reveal timer.  Of the timers that are due the one
\* registered first runs first.
RevealTimerFires ==
    /\ \E i \in 1..Len(animTimers) : animTimers[i].rem = 0
    /\ LET i == SetMin({j \in 1..Len(animTimers) : animTimers[j].rem = 0})
       IN /\ style' = [style EXCEPT ![animTimers[i].target] = Revealed]
          /\ animTimers' = RemoveAt(animTimers, i)
    /\ last' = "reveal"
    /\ UNCHANGED <<observed, sightings, seenBatch, seenIndex, scheduled, notAnim>>

\* time passes by one step of the clock, no reveal timer being due
AnimTimePasses ==
    /\ animTimers # <<>>
    /\ \A i \in 1..Len(animTimers) : animTimers[i].rem >= AnimTick
    /\ animTimers' = [i \in 1..Len(animTimers) |->
                         [animTimers[i] EXCEPT !.rem = animTimers[i].rem - AnimTick]]
    /\ last' = "time"
    /\ UNCHANGED <<observed, style, sightings, seenBatch, seenIndex, scheduled, notAnim>>

AnimNext ==
    \/ \E entries \in AnimBatches(observed) : AnimationObserverFires(entries)
    \/ RevealTimerFires
    \/ AnimTimePasses

----------------------------------------------------------------------------
(* The specifications: each follows one part of the page, the rest at rest *)

InitForm ==
    /\ FormInit
    /\ ThemeInit({"dark-mode"}, {"bx-moon"})
    /\ ScrollInit
    /\ MenuInit(FALSE, MOBILE_BREAKPOINT)
    /\ ThrottleInit(MaxLimit)
    /\ NavInit(<<"home", "about", "contact">>, {1})
    /\ AnimInit
    /\ last = "init"

SpecForm == InitForm /\ [][FormNext]_vars

InitTheme ==
    /\ FormInit
    /\ \E b \in BodyMarkups : \E i \in IconMarkups : ThemeInit(b, i)
    /\ ScrollInit
    /\ MenuInit(FALSE, MOBILE_BREAKPOINT)
    /\ ThrottleInit(MaxLimit)
    /\ NavInit(<<"home", "about", "contact">>, {1})
    /\ AnimInit
    /\ last = "init"

SpecTheme == InitTheme /\ [][ThemeNext]_vars

InitMenu ==
    /\ FormInit
    /\ ThemeInit({"dark-mode"}, {"bx-moon"})
    /\ ScrollInit
    /\ \E open \in BOOLEAN : \E w \in WidthValues : MenuInit(open, w)
    /\ ThrottleInit(MaxLimit)
    /\ NavInit(<<"home", "about", "contact">>, {1})
    /\ AnimInit
    /\ last = "init"

SpecMenu == InitMenu /\ [][MenuNext]_vars

InitThrottle ==
    /\ FormInit
    /\ ThemeInit({"dark-mode"}, {"bx-moon"})
    /\ ScrollInit
    /\ MenuInit(FALSE, MOBILE_BREAKPOINT)
    /\ \E l \in 1..MaxLimit : ThrottleInit(l)
    /\ NavInit(<<"home", "about", "contact">>, {1})
    /\ AnimInit
    /\ last = "init"

SpecThrottle == InitThrottle /\ [][ThrottleNext]_vars

InitNav ==
    /\ FormInit
    /\ ThemeInit({"dark-mode"}, {"bx-moon"})
    /\ ScrollInit
    /\ MenuInit(FALSE, MOBILE_BREAKPOINT)
    /\ ThrottleInit(MaxLimit)
    /\ \E links \in NavMarkups : \E active \in SUBSET (1..Len(links)) :
           NavInit(links, active)
    /\ AnimInit
    /\ last = "init"

SpecNav == InitNav /\ [][NavNext]_vars

InitAnim ==
    /\ FormInit
    /\ ThemeInit({"dark-mode"}, {"bx-moon"})
    /\ ScrollInit
    /\ MenuInit(FALSE, MOBILE_BREAKPOINT)
    /\ ThrottleInit(MaxLimit)
    /\ NavInit(<<"home", "about", "contact">>, {1})
    /\ AnimInit
    /\ last = "init"

\* a pending timer's callback runs when it is due, and time does not stop
SpecAnim ==
    /\ InitAnim
    /\ [][AnimNext]_vars
    /\ WF_vars(RevealTimerFires)
    /\ WF_vars(AnimTimePasses)

----------------------------------------------------------------------------
(* The validation of handleFormSubmit alone: one submit event on a form     *)
(* filled with any strings                                                  *)

StringsUpTo(n) == UNION {[1..k -> Chars] : k \in 0..n}

ValidateInit ==
    /\ \E e \in StringsUpTo(MaxEmailLen) :
       \E other \in [FieldNames \ {"email"} -> {EmptyStr, WordStr}] :
           fields = [f \in FieldNames |-> IF f = "email" THEN e ELSE other[f]]
    /\ submitDisabled = FALSE
    /\ submitText = "Send Message"
    /\ msgText = ""
    /\ msgClass = "form-message"
    /\ timers = <<>>

InitValidate ==
    /\ ValidateInit
    /\ ThemeInit({"dark-mode"}, {"bx-moon"})
    /\ ScrollInit
    /\ MenuInit(FALSE, MOBILE_BREAKPOINT)
    /\ ThrottleInit(MaxLimit)
    /\ NavInit(<<"home", "about", "contact">>, {1})
    /\ AnimInit
    /\ last = "init"

\* the one submit event
ValidateNext ==
    /\ last = "init"
    /\ HandleFormSubmit

SpecValidate == InitValidate /\ [][ValidateNext]_vars

----------------------------------------------------------------------------
(* Claims about the contact form *)

SomeFieldBlank == \E f \in FieldNames : Trim(fields[f]) = EmptyStr

\* a timer of this kind is pending and not yet due
NotYetDue(kind) ==
    \E i \in 1..Len(timers) : timers[i].kind = kind /\ timers[i].rem > 0

SubmitPending == NotYetDue("submit")

ClearPending == NotYetDue("clear")

\* C1: a submit event with four non-empty trimmed fields and a matching email
\* leaves the submit control disabled; the control stays disabled while the
\* 2000 ms timer of a submission is not yet due; right after a submission's timer
\* has fired the control is enabled and the four fields are empty.
C1_ValidSubmission ==
    /\ (last = "submit" /\ ~SomeFieldBlank /\ EmailRegexTest(Trim(fields.email)))
          => submitDisabled
    /\ SubmitPending => submitDisabled
    /\ last = "submitTimer"
          => ~submitDisabled /\ \A f \in FieldNames : fields[f] = EmptyStr

\* C2 as claimed: after a submit event with a field that is empty after
\* trimming, the message is the validation error, of type error, and the submit
\* control is enabled.
C2_EmptyFieldLeavesEnabled ==
    (last = "submit" /\ SomeFieldBlank)
        => /\ msgText = MsgFillAll
           /\ msgClass = "form-message error"
           /\ ~submitDisabled

\* C2 as amended: a submit event with a field that is empty after trimming
\* displays the validation error, of type error, and leaves the submit
\* control's disabled flag as it was before the event.
C2_EmptyFieldRejected ==
    [][(last' = "submit" /\ SomeFieldBlank)
          => /\ msgText' = MsgFillAll
             /\ msgClass' = "form-message error"
             /\ submitDisabled' = submitDisabled]_vars

\* the message field alone is blank, the submit event was rejected and the
\* control is enabled
C2_Witness ==
    /\ last = "submit"
    /\ fields.message = BlankStr
    /\ \A f \in FieldNames \ {"message"} : Trim(fields[f]) # EmptyStr
    /\ msgText = MsgFillAll
    /\ msgClass = "form-message error"
    /\ ~submitDisabled

\* C3 as claimed: after a submit event with an email field that does not match
\* the pattern, the message is the email-format error.
C3_EveryMismatchIsFormatError ==
    (last = "submit" /\ ~EmailRegexTest(fields.email)) => msgText = MsgBadEmail

\* C3 as amended: after a submit event with four fields that are non-empty
\* after trimming and a trimmed email that does not match the pattern, the
\* message is the email-format error, of type error.
C3_MismatchIsFormatError ==
    (last = "submit" /\ ~SomeFieldBlank /\ ~EmailRegexTest(Trim(fields.email)))
        => /\ msgText = MsgBadEmail
           /\ msgClass = "form-message error"

\* an email with an "@" and no ".tld" was submitted with the other fields
\* filled, and the email-format error is displayed
C3_Witness ==
    /\ last = "submit"
    /\ fields.email = BadEmail
    /\ ~SomeFieldBlank
    /\ msgText = MsgBadEmail

\* C10: a displayed message keeps the class of its type for 5000 ms: while
\* the clearing timer of the newest message is not yet due (it is the last of
\* the pending clearing timers to fire) formMessage has a type class, and when
\* the last clearing timer has fired the class is cleared.
C10_MessageStaysForItsDuration ==
    /\ ClearPending => msgClass # "form-message"
    /\ (last = "clearTimer" /\ timers = <<>>) => msgClass = "form-message"

----------------------------------------------------------------------------
(* Claims about the theme and the scroll listeners *)

\* C4 as claimed: after two toggleTheme calls in a row the stored theme, the
\* body's classes and the icon's classes are what they were before the two.
C4_ToggleTwiceRestoresAll ==
    Len(themeTrail) = 2 => ThemeNow = themeTrail[1]

\* C4 as amended: after two toggleTheme calls in a row the body's and the
\* icon's classes are what they were before the two, and so is the stored
\* theme when one was stored; when none was stored, 'dark' is stored.
C4_ToggleTwiceRestoresClasses ==
    Len(themeTrail) = 2
        => /\ bodyClasses = themeTrail[1].body
           /\ iconClasses = themeTrail[1].icon
           /\ storedTheme = IF themeTrail[1].store = NoTheme
                            THEN "dark"
                            ELSE themeTrail[1].store

\* two toggles on the first page view: the classes are back, 'dark' is stored
C4_Witness ==
    /\ Len(themeTrail) = 2
    /\ themeTrail[1].store = NoTheme
    /\ bodyClasses = themeTrail[1].body
    /\ storedTheme = "dark"

\* C7: after a scroll event the header has 'scrolled' exactly when the offset
\* is greater than 100 and the back-to-top button has 'visible' exactly when it
\* is greater than 500, whatever the offset was before.
C7_ScrollClassesFollowOffset ==
    last = "scroll"
        => /\ headerScrolled <=> scrollY > HEADER_THRESHOLD
           /\ backToTopVisible <=> scrollY > BACK_TO_TOP_THRESHOLD

\* a scroll event from below the back-to-top threshold to the header
\* threshold itself: both classes are cleared
C7_Witness ==
    /\ last = "scroll"
    /\ prevScrollY > BACK_TO_TOP_THRESHOLD
    /\ scrollY = HEADER_THRESHOLD
    /\ ~headerScrolled
    /\ ~backToTopVisible

\* what the stored theme asks of the classes
ClassesMatch(saved) ==
    IF saved = "light"
    THEN bodyClasses = {"light-mode"} /\ iconClasses = {"bx-sun"}
    ELSE "dark-mode" \in bodyClasses /\ "bx-moon" \in iconClasses

\* C9: a page load leaves the body's and the icon's classes as the stored
\* theme asks, dark when none is stored; a reload after any toggles leaves
\* them as they were before the reload.
C9_ReloadRestoresTheme ==
    /\ [](last \in {"init", "reload"} => ClassesMatch(storedTheme))
    /\ [][last' = "reload"
             => bodyClasses' = bodyClasses /\ iconClasses' = iconClasses]_vars

\* the page was reloaded with 'light' stored and dark markup: it is light
C9_Witness ==
    /\ last = "reload"
    /\ storedTheme = "light"
    /\ bodyMarkup = {"dark-mode"}
    /\ bodyClasses = {"light-mode"}
    /\ iconClasses = {"bx-sun"}

----------------------------------------------------------------------------
(* Claims about the menu, debounce and throttle *)

\* C5: handleResize = debounce(func, 250): each call cancels the pending timer
\* and starts a new one of 250 ms; while a timer is pending func has not run
\* since the burst of calls began and the timer is due 250 ms after the latest
\* call; once no timer is pending func has run exactly once, 250 ms after the
\* latest call.
C5_DebounceRunsOnceAfterWait ==
    /\ Cardinality(resizeTimers) <= 1
    /\ last = "resize" => resizeTimers = {[id |-> timeout, rem |-> RESIZE_WAIT]}
    /\ resizeTimers # {}
          => /\ burstRuns = 0
             /\ \A t \in resizeTimers : t.rem + sinceCall = RESIZE_WAIT
    /\ (resizeTimers = {} /\ burstCalls >= 1)
          => burstRuns = 1 /\ sinceCall = RESIZE_WAIT

\* a burst of several calls has ended: the timer fired and func ran once
C5_Witness ==
    /\ last = "resizeTimer"
    /\ burstCalls >= 2
    /\ burstRuns = 1
    /\ resizeTimers = {}

\* C6: from the call that opens a window of a throttled function on, func has
\* been invoked exactly once, by that call and with its argument, however many
\* calls followed within the limit and also after the limit has passed.
C6_ThrottleRunsFirstCallOnly ==
    windowCalls >= 1 => windowRuns = 1 /\ fnArg = windowArg

\* several calls within the limit, the limit has passed and the timer fired:
\* func ran once, with the first call's argument
C6_Witness ==
    /\ windowCalls >= 2
    /\ windowRuns = 1
    /\ elapsed = limit
    /\ throttleTimers = {}
    /\ ~inThrottle
    /\ fnArg = windowArg

\* C8: after a click on a nav link, a click outside the navbar and the menu
\* icon, or an Escape keydown, the navbar has no 'active' and the menu icon no
\* 'bx-x'.
C8_MenuForcedClosed ==
    last \in {"clickLink", "clickOutside", "escape"}
        => ~navbarActive /\ ~menuIconX

\* Escape was pressed with the menu open: it is closed
C8_Witness ==
    /\ last = "escape"
    /\ menuWasOpen
    /\ ~navbarActive
    /\ ~menuIconX

----------------------------------------------------------------------------
(* Claims about the active navigation link *)

\* the positions of the intersecting entries of the latest batch
IntersectingAt == {k \in 1..Len(batch) : batch[k].isIntersecting}

\* the id of the last intersecting entry of the latest batch
LastIntersectingId ==
    batch[CHOOSE k \in IntersectingAt : \A j \in IntersectingAt : j <= k].target

\* the links whose data-section is this id
LinksOf(id) == {i \in 1..Len(navLinkSections) : navLinkSections[i] = id}

\* C11: after a sectionObserver callback whose batch has an intersecting entry,
\* the links with 'active' are exactly the link whose data-section is the id of
\* the last intersecting entry (the first such link of the document when there
\* are several, none when there is none); so at most one link is active.
C11_LastIntersectingWins ==
    (last = "sections" /\ IntersectingAt # {})
        => /\ Cardinality(activeLinks) <= 1
           /\ activeLinks \subseteq LinksOf(LastIntersectingId)
           /\ LinksOf(LastIntersectingId) # {} => Cardinality(activeLinks) = 1
           /\ \A i \in activeLinks : \A j \in LinksOf(LastIntersectingId) : i <= j

\* two sections were intersecting in one batch while another link was
\* highlighted: the link of the later entry alone is active
C11_Witness ==
    /\ last = "sections"
    /\ Cardinality(IntersectingAt) >= 2
    /\ \E k \in IntersectingAt : batch[k].target # LastIntersectingId
    /\ activeBefore # {}
    /\ activeBefore \cap LinksOf(LastIntersectingId) = {}
    /\ Cardinality(activeLinks) = 1
    /\ activeLinks \subseteq LinksOf(LastIntersectingId)

\* C19: a sectionObserver callback whose batch has no intersecting entry
\* leaves the links with 'active' as they were: the highlighted link stays
\* highlighted when its section leaves the trigger zone.
C19_NoIntersectingKeepsActive ==
    (last = "sections" /\ IntersectingAt = {}) => activeLinks = activeBefore

\* the section of the one highlighted link has left the trigger zone and the
\* link is still highlighted
C19_Witness ==
    /\ last = "sections"
    /\ IntersectingAt = {}
    /\ Cardinality(activeBefore) = 1
    /\ \E k \in 1..Len(batch) : activeBefore \subseteq LinksOf(batch[k].target)
    /\ activeLinks = activeBefore

----------------------------------------------------------------------------
(* Claims about the entrance animation *)

\* the element has been seen intersecting by animationObserver
Seen(e) == seenBatch[e] # 0

IsRevealed(e) == style[e] = Revealed

\* once revealed an element is never given another style by the observer
StaysRevealed ==
    \A e \in AnimatedElements : IsRevealed(e) => style'[e] = Revealed

\* C12 as claimed: each element has its reveal scheduled at most once, is not
\* observed once it has been seen intersecting, is eventually revealed once
\* seen intersecting, and once revealed stays revealed.
C12_FireOnce ==
    /\ [](\A e \in AnimatedElements :
             /\ scheduled[e] <= 1
             /\ Seen(e) => e \notin observed)
    /\ \A e \in AnimatedElements : Seen(e) ~> IsRevealed(e)
    /\ [][StaysRevealed]_vars

\* C12 as amended: the reveal of an element is scheduled only by the callback
\* that first sees it intersecting, at least once (once for each intersecting
\* entry the element has in that batch); from that callback on the element is
\* not observed; it is eventually revealed, and once revealed stays revealed.
C12_FireOnceAfterFirstSighting ==
    /\ [](\A e \in AnimatedElements :
             /\ Seen(e) <=> scheduled[e] >= 1
             /\ Seen(e) => e \notin observed)
    /\ [][\A e \in AnimatedElements : Seen(e) => scheduled'[e] = scheduled[e]]_vars
    /\ \A e \in AnimatedElements : Seen(e) ~> IsRevealed(e)
    /\ [][StaysRevealed]_vars

\* an element had two intersecting entries in the batch that first showed it:
\* two reveals were scheduled, it is revealed and no longer observed
C12_Witness ==
    \E e \in AnimatedElements :
        /\ scheduled[e] = 2
        /\ IsRevealed(e)
        /\ e \notin observed
        /\ \A i \in 1..Len(animTimers) : animTimers[i].target # e

\* a was seen intersecting before b: in an earlier batch, or earlier in one batch
ObservedBefore(a, b) ==
    /\ Seen(a)
    /\ Seen(b)
    /\ \/ seenBatch[a] < seenBatch[b]
       \/ seenBatch[a] = seenBatch[b] /\ seenIndex[a] < seenIndex[b]

\* C15 as claimed: of two elements the one seen intersecting first, within a
\* batch or across batches, is revealed no later than the other.
C15_StaggeredByObservationOrder ==
    \A a, b \in AnimatedElements :
        (ObservedBefore(a, b) /\ IsRevealed(b)) => IsRevealed(a)

\* C15 as amended: the callback that first sees an element intersecting
\* schedules its reveal index * 100 ms later, index being the position of the
\* entry in the batch; so of two elements first seen in one batch the one
\* with the earlier entry is revealed no later than the other.
C15_StaggeredWithinBatch ==
    /\ [](\A a, b \in AnimatedElements :
             (/\ ObservedBefore(a, b)
              /\ seenBatch[a] = seenBatch[b]
              /\ IsRevealed(b)) => IsRevealed(a))
    /\ [][\A e \in AnimatedElements :
             (~Seen(e) /\ seenBatch'[e] # 0)
                 => \E i \in 1..Len(animTimers') :
                        animTimers'[i] = [target |-> e,
                                          rem |-> seenIndex'[e] * STAGGER]]_vars

\* two elements were first seen in one batch: the one with the earlier entry
\* is revealed while the reveal of the other is still to come
C15_Witness ==
    \E a, b \in AnimatedElements :
        /\ ObservedBefore(a, b)
        /\ seenBatch[a] = seenBatch[b]
        /\ IsRevealed(a)
        /\ ~IsRevealed(b)
        /\ \E i \in 1..Len(animTimers) :
               animTimers[i].target = b /\ animTimers[i].rem > 0

----------------------------------------------------------------------------
(* Further claims about the menu, the theme and throttle *)

\* C13: the navbar has 'active' exactly when the menu icon has 'bx-x', and a
\* click on the menu icon, the document's click listener included, opens the
\* menu when it was closed and closes it when it was open.
C13_MenuStateShared ==
    /\ navbarActive <=> menuIconX
    /\ last = "clickIcon" => navbarActive # menuWasOpen

\* a click on the menu icon has opened the closed menu
C13_Witness ==
    /\ last = "clickIcon"
    /\ ~menuWasOpen
    /\ navbarActive
    /\ menuIconX

\* C14: after loadTheme and through any toggles the body has exactly one of
\* dark-mode and light-mode and the icon exactly one of bx-moon and bx-sun,
\* dark-mode with bx-moon and light-mode with bx-sun; once the theme has been
\* toggled the stored theme names the body's class.
C14_ThemeClassesExclusive ==
    /\ \/ bodyClasses = {"dark-mode"} /\ iconClasses = {"bx-moon"}
       \/ bodyClasses = {"light-mode"} /\ iconClasses = {"bx-sun"}
    /\ themeTrail # <<>>
          => storedTheme = IF IsDarkMode(bodyClasses) THEN "dark" ELSE "light"

\* the page whose markup carries no theme class was toggled to light
C14_Witness ==
    /\ themeTrail # <<>>
    /\ bodyMarkup = {}
    /\ iconMarkup = {}
    /\ bodyClasses = {"light-mode"}
    /\ iconClasses = {"bx-sun"}
    /\ storedTheme = "light"

\* C16: a call of a throttled function made while no cooldown is pending
\* invokes func with its argument and starts a cooldown of the limit; a call
\* made during a cooldown does not invoke func, and neither does the end of the
\* cooldown; so an invocation of func comes no sooner than the limit after
\* the one before, and the first call after a cooldown is invoked at once.
C16_ThrottleCooldown ==
    /\ [][(last' = "call" /\ ~inThrottle)
             => /\ fnArg' = windowArg'
                /\ windowCalls' = 1
                /\ windowRuns' = 1
                /\ inThrottle'
                /\ throttleTimers' = {limit}
                /\ windowCalls > 0 => elapsed = limit]_vars
    /\ [][(last' = "call" /\ inThrottle)
             => /\ fnArg' = fnArg
                /\ windowRuns' = windowRuns
                /\ throttleTimers' = throttleTimers
                /\ inThrottle']_vars
    /\ [][last' = "throttleTimer"
             => /\ fnArg' = fnArg
                /\ windowRuns' = windowRuns
                /\ ~inThrottle'
                /\ elapsed = limit]_vars

\* a cooldown has ended and the first call after it was invoked at once, with
\* its own argument, and started the next cooldown
C16_Witness ==
    /\ last = "call"
    /\ windows = 2
    /\ windowCalls = 1
    /\ windowRuns = 1
    /\ elapsed = 0
    /\ fnArg = "y"
    /\ windowArg = "y"
    /\ inThrottle
    /\ throttleTimers = {limit}
    /\ limit > 1

----------------------------------------------------------------------------
(* Further claims about the contact form *)

\* C17: in every state in which the timer of a simulated submission is
\* pending and not yet due, the submit control is disabled and reads
\* 'Sending...'.
C17_DisabledWhilePending ==
    SubmitPending => submitDisabled /\ submitText = "Sending..."

\* the validation rejects the form as it is filled
Rejected == SomeFieldBlank \/ ~EmailRegexTest(Trim(fields.email))

\* C18: a submit event the validation rejects leaves the four fields, the
\* submit control's disabled flag and label, the pending timers and all that
\* is not the form's as they were, but for the one message-clearing timer it
\* adds; it changes the status message only.
C18_RejectedSubmitChangesMessageOnly ==
    [][(last' = "submit" /\ Rejected)
          => /\ fields' = fields
             /\ submitDisabled' = submitDisabled
             /\ submitText' = submitText
             /\ timers' = Append(timers, Timer("clear", MESSAGE_DELAY))
             /\ msgClass' = "form-message error"
             /\ notForm' = notForm]_vars

\* a malformed email was submitted while a simulated submission was pending:
\* the error is shown, the control is still disabled and the submission's
\* timer is still pending
C18_Witness ==
    /\ last = "submit"
    /\ ~SomeFieldBlank
    /\ ~EmailRegexTest(Trim(fields.email))
    /\ msgText = MsgBadEmail
    /\ submitDisabled
    /\ submitText = "Sending..."
    /\ Len(timers) = 2
    /\ timers[1].kind = "submit"
    /\ timers[1].rem > 0
    /\ timers[2] = Timer("clear", MESSAGE_DELAY)

====
